---- MODULE Spec2Model ----
(***************************************************************************)
(* Lock elision with restricted transactional memory: rte_try_tm and the   *)
(* RTM wrappers of src/src/core/tsx.c.                                     *)
(*                                                                         *)
(* Machine words are modelled as the set of their set bit positions        *)
(* (bit 0 = least significant), so that 32- and 64-bit values keep their   *)
(* full width: x & y is intersection, x | y is union, zero is {}.          *)
(***************************************************************************)
EXTENDS Integers, FiniteSets, Sequences, TLC

(* ------------------------------------------------------------------ *)
(* Constants of tsx.c                                                  *)
(* ------------------------------------------------------------------ *)
RTE_XBEGIN_STARTED == 0..31
RTE_XABORT_EXPLICIT == {0}
RTE_XABORT_RETRY == {1}
RTE_XABORT_CONFLICT == {2}
RTE_XABORT_CAPACITY == {3}
RTE_XABORT_DEBUG == {4}
RTE_XABORT_NESTED == {5}
RTE_RTM_MAX_RETRIES == 20
RTE_XABORT_LOCK_BUSY == 0..7

(* (((x) >> 24) & 0xff) on a 32-bit word *)
RTE_XABORT_CODE(x) == {b - 24 : b \in {c \in x : c >= 24}} \cap (0..7)

(* ------------------------------------------------------------------ *)
(* Word arithmetic                                                     *)
(* ------------------------------------------------------------------ *)
RECURSIVE Pow2(_)
Pow2(n) == IF n = 0 THEN 1 ELSE 2 * Pow2(n - 1)

RECURSIVE SumBits(_)
SumBits(s) == IF s = {} THEN 0
              ELSE LET b == CHOOSE c \in s : TRUE
                   IN  Pow2(b) + SumBits(s \ {b})

(* value of a 32-bit word read as a signed int (two's complement) *)
ToInt32(w) == LET low == SumBits((w \cap (0..31)) \ {31})
              IN  IF 31 \in w THEN (low - Pow2(30)) - Pow2(30) ELSE low

(* w << n on a 32-bit int *)
ShiftLeft32(w, n) == {b + n : b \in w} \cap (0..31)

(* ------------------------------------------------------------------ *)
(* Bounds and input sets                                               *)
(* ------------------------------------------------------------------ *)
Threads == {"t1", "t2"}
Caller == "t1"

(* saturation of the observed number of busy-wait pauses *)
MaxSpin == 1

(* values the fallback lock stores in the flag while held *)
HeldValues == {1}

(* abort statuses a failed rte_xbegin is scripted to return *)
AbortFlags ==
    { {}, RTE_XABORT_RETRY, RTE_XABORT_CONFLICT,
      RTE_XABORT_CONFLICT \cup RTE_XABORT_RETRY,
      RTE_XABORT_CAPACITY, RTE_XABORT_DEBUG \cup RTE_XABORT_RETRY,
      RTE_XABORT_NESTED }
ExplicitStatuses ==
    { RTE_XABORT_EXPLICIT \cup {b + 24 : b \in c} \cup r :
        c \in { {0}, 0..7 }, r \in { {}, RTE_XABORT_RETRY } }
AbortStatuses == AbortFlags \cup ExplicitStatuses \cup { {b + 24 : b \in 0..7} }

(* statuses used when several threads elide the same lock *)
ContendedStatuses == { RTE_XABORT_CAPACITY, RTE_XABORT_CONFLICT \cup RTE_XABORT_RETRY }

(* status delivered by the hardware when a flag write hits a read set *)
ConflictStatuses == { RTE_XABORT_CONFLICT, RTE_XABORT_CONFLICT \cup RTE_XABORT_RETRY }

(* bits 31:24 of a status: no code, code 0x01, code 0xff *)
AbortCodes == { {}, {24}, 24..31 }

(* every combination of the six flags that includes the flags f, with *)
(* each of the codes                                                   *)
StatusesWith(f) == { g \cup f \cup c : g \in SUBSET (0..5), c \in AbortCodes }

(* every abort status *)
AllStatuses == StatusesWith({})

(* the abort statuses that carry RTE_XABORT_NESTED *)
NestedStatuses == StatusesWith(RTE_XABORT_NESTED)

(* lo_32 and hi_32 of the values read from the time stamp counter *)
TscReads == { <<{}, {}>>, <<{1, 3}, 0..31>>, <<{0, 2, 31}, {5}>>, <<0..31, 0..31>> }

NoStatus == {}
NoOwner == "none"

(* ------------------------------------------------------------------ *)
(* State                                                               *)
(* ------------------------------------------------------------------ *)
VARIABLES
    lock,         \* *lock, the shared flag of the fallback lock
    owner,        \* thread holding the fallback lock, or NoOwner
    pc,           \* per thread: position in rte_try_tm or in its caller
    retries,      \* per thread: local int retries
    status,       \* per thread: local const unsigned int status
    try_count,    \* per thread: local const int try_count
    pause_count,  \* per thread: local int pause_count
    tsc,          \* per thread: value returned by rte_rdtsc()
    ret,          \* per thread: value returned by rte_try_tm
    inTx,         \* per thread: executing inside a transactional region
    readSet,      \* per thread: the open transaction has read *lock
    tracked,      \* threads whose calls are instrumented by obs
    obs           \* per thread: what has been observed of the current call

vars == <<lock, owner, pc, retries, status, try_count, pause_count, tsc, ret, inTx, readSet,
          tracked, obs>>

InCall == {"while", "xbegin", "started", "spin", "classify", "backoff", "pause", "return0"}

ObsInit ==
    [ begins |-> 0,          \* rte_xbegin calls
      xaborts |-> 0,         \* rte_xabort calls
      rdtscs |-> 0,          \* rte_rdtsc calls
      spins |-> 0,           \* pauses of the busy-wait (saturates at MaxSpin)
      pauses |-> 0,          \* backoff pauses executed since the last rte_xbegin
      sawHeld |-> FALSE,     \* the flag was nonzero at some time of the call
      sawFree |-> FALSE,     \* the flag was zero at some time of the call
      onlyStarted |-> TRUE,  \* every rte_xbegin so far reported only Started
      onlyConflict |-> TRUE, \* every rte_xbegin so far reported a conflict abort
      onlyRetry |-> TRUE,    \* every rte_xbegin so far reported an abort with the
                             \* retry flag, no conflict and no explicit 0xFF
      afterAbort |-> "none", \* "none": no transaction of the call was rolled back;
                             \* "wait": the flag was not read zero since the last
                             \* rollback; "free": it was
      readFree |-> FALSE ]   \* the latest read of the flag by the call gave zero

Track(t, r) == IF t \in tracked THEN [obs EXCEPT ![t] = r] ELSE obs

TypeOK ==
    /\ lock \in {0} \cup HeldValues
    /\ owner \in Threads \cup {NoOwner}
    /\ pc \in [Threads -> InCall \cup {"idle", "returned", "locked"}]
    /\ retries \in [Threads -> -1..RTE_RTM_MAX_RETRIES]
    /\ status \in [Threads -> SUBSET (0..31)]
    /\ ret \in [Threads -> {0, 1}]
    /\ inTx \in [Threads -> BOOLEAN]
    /\ readSet \in [Threads -> BOOLEAN]
    /\ tracked \subseteq Threads

InitProg ==
    /\ lock = 0
    /\ owner = NoOwner
    /\ pc = [t \in Threads |-> "idle"]
    /\ retries = [t \in Threads |-> 0]
    /\ status = [t \in Threads |-> NoStatus]
    /\ try_count = [t \in Threads |-> 0]
    /\ pause_count = [t \in Threads |-> 0]
    /\ tsc = [t \in Threads |-> {}]
    /\ ret = [t \in Threads |-> 0]
    /\ inTx = [t \in Threads |-> FALSE]
    /\ readSet = [t \in Threads |-> FALSE]
    /\ obs = [t \in Threads |-> ObsInit]

Init == InitProg /\ tracked = {Caller}

(* ------------------------------------------------------------------ *)
(* RTM wrappers                                                        *)
(* ------------------------------------------------------------------ *)

(* mutant: the abort code is dropped *)
rte_xabort_NoCode(code) == RTE_XABORT_EXPLICIT

(* rte_xabort(code): the status with which the rolled back transaction *)
(* resurfaces at its rte_xbegin                                        *)
rte_xabort(code) == RTE_XABORT_EXPLICIT \cup {b + 24 : b \in code \cap (0..7)}

(* rte_rdtsc(): tsc_64 assembled from lo_32 (bits 0..31) and hi_32 *)
rte_rdtsc(lo_32, hi_32) == (lo_32 \cap (0..31)) \cup {b + 32 : b \in hi_32 \cap (0..31)}

(* rte_xtest(): nonzero inside a transactional region *)
rte_xtest(t) == IF inTx[t] THEN 1 ELSE 0

(* ------------------------------------------------------------------ *)
(* rte_try_tm                                                          *)
(* ------------------------------------------------------------------ *)

(* mutant: int retries = RTE_RTM_MAX_RETRIES + 1; *)
CallOneMore(t) ==
    /\ pc[t] = "idle"
    /\ pc' = [pc EXCEPT ![t] = "while"]
    /\ retries' = [retries EXCEPT ![t] = RTE_RTM_MAX_RETRIES + 1]
    /\ ret' = [ret EXCEPT ![t] = 0]
    /\ obs' = Track(t, [ObsInit EXCEPT !.sawHeld = (lock # 0), !.sawFree = (lock = 0)])
    /\ UNCHANGED <<lock, owner, status, try_count, pause_count, tsc, inTx, readSet, tracked>>

(* int retries = RTE_RTM_MAX_RETRIES; *)
Call(t) ==
    /\ pc[t] = "idle"
    /\ pc' = [pc EXCEPT ![t] = "while"]
    /\ retries' = [retries EXCEPT ![t] = RTE_RTM_MAX_RETRIES]
    /\ ret' = [ret EXCEPT ![t] = 0]
    /\ obs' = Track(t, [ObsInit EXCEPT !.sawHeld = (lock # 0), !.sawFree = (lock = 0)])
    /\ UNCHANGED <<lock, owner, status, try_count, pause_count, tsc, inTx, readSet, tracked>>

(* mutant: the loop test does not consume a retry *)
LoopTestNoDecrement(t) ==
    /\ pc[t] = "while"
    /\ pc' = [pc EXCEPT ![t] = IF retries[t] # 0 THEN "xbegin" ELSE "return0"]
    /\ UNCHANGED <<lock, owner, retries, status, try_count, pause_count, tsc, ret, inTx,
                   readSet, tracked, obs>>

(* mutant: while (--retries) *)
LoopTestPreDecrement(t) ==
    /\ pc[t] = "while"
    /\ pc' = [pc EXCEPT ![t] = IF retries[t] - 1 # 0 THEN "xbegin" ELSE "return0"]
    /\ retries' = [retries EXCEPT ![t] = retries[t] - 1]
    /\ UNCHANGED <<lock, owner, status, try_count, pause_count, tsc, ret, inTx, readSet,
                   tracked, obs>>

(* mutant: while (retries-- && ! *lock ), no attempt while the lock is held *)
LoopTestUnlessHeld(t) ==
    /\ pc[t] = "while"
    /\ pc' = [pc EXCEPT ![t] = IF retries[t] # 0 /\ lock = 0 THEN "xbegin" ELSE "return0"]
    /\ retries' = [retries EXCEPT ![t] = retries[t] - 1]
    /\ obs' = Track(t, [obs[t] EXCEPT !.readFree = (lock = 0)])
    /\ UNCHANGED <<lock, owner, status, try_count, pause_count, tsc, ret, inTx, readSet,
                   tracked>>

(* while (likely(retries--)) *)
LoopTest(t) ==
    /\ pc[t] = "while"
    /\ pc' = [pc EXCEPT ![t] = IF retries[t] # 0 THEN "xbegin" ELSE "return0"]
    /\ retries' = [retries EXCEPT ![t] = retries[t] - 1]
    /\ UNCHANGED <<lock, owner, status, try_count, pause_count, tsc, ret, inTx, readSet,
                   tracked, obs>>

(* const unsigned int status = rte_xbegin(); reporting Started *)
XBeginStarted(t) ==
    /\ pc[t] = "xbegin"
    /\ pc' = [pc EXCEPT ![t] = "started"]
    /\ status' = [status EXCEPT ![t] = RTE_XBEGIN_STARTED]
    /\ inTx' = [inTx EXCEPT ![t] = TRUE]
    /\ readSet' = [readSet EXCEPT ![t] = FALSE]
    /\ obs' = Track(t, [obs[t] EXCEPT !.begins = @ + 1,
                                      !.pauses = 0,
                                      !.onlyConflict = FALSE,
                                      !.onlyRetry = FALSE])
    /\ UNCHANGED <<lock, owner, retries, try_count, pause_count, tsc, ret, tracked>>

(* const unsigned int status = rte_xbegin(); reporting an abort status s *)
XBeginAbort(t, s) ==
    /\ pc[t] = "xbegin"
    /\ s # RTE_XBEGIN_STARTED
    /\ pc' = [pc EXCEPT ![t] = "spin"]
    /\ status' = [status EXCEPT ![t] = s]
    /\ obs' = Track(t, [obs[t] EXCEPT !.begins = @ + 1,
                                      !.pauses = 0,
                                      !.onlyStarted = FALSE,
                                      !.onlyConflict = @ /\ (s \cap RTE_XABORT_CONFLICT # {}),
                                      !.onlyRetry = /\ @
                                                    /\ s \cap RTE_XABORT_RETRY # {}
                                                    /\ s \cap RTE_XABORT_CONFLICT = {}
                                                    /\ ~(/\ s \cap RTE_XABORT_EXPLICIT # {}
                                                         /\ {b + 24 : b \in 0..7} \subseteq s),
                                      !.afterAbort = "wait"])
    /\ UNCHANGED <<lock, owner, retries, try_count, pause_count, tsc, ret, inTx, readSet, tracked>>

(* what StartedCheck and its mutants leave alone *)
StartedFrame == UNCHANGED <<lock, owner, retries, try_count, pause_count, tsc, tracked>>

(* the explicit abort of the Started branch *)
StartedAbort(t) ==
    /\ pc' = [pc EXCEPT ![t] = "spin"]
    /\ status' = [status EXCEPT ![t] = rte_xabort(RTE_XABORT_LOCK_BUSY)]
    /\ inTx' = [inTx EXCEPT ![t] = FALSE]
    /\ readSet' = [readSet EXCEPT ![t] = FALSE]
    /\ ret' = ret
    /\ obs' = Track(t, [obs[t] EXCEPT !.xaborts = @ + 1,
                                      !.afterAbort = "wait",
                                      !.readFree = (lock = 0)])

(* return 1 of the Started branch; r tells whether the flag was read *)
StartedReturn(t, r) ==
    /\ pc' = [pc EXCEPT ![t] = "returned"]
    /\ ret' = [ret EXCEPT ![t] = 1]
    /\ readSet' = [readSet EXCEPT ![t] = r]
    /\ obs' = Track(t, [obs[t] EXCEPT !.readFree = IF r THEN lock = 0 ELSE @])
    /\ UNCHANGED <<status, inTx>>

(* mutant: return 1 without a look at the flag *)
StartedCheckNoRead(t) ==
    /\ pc[t] = "started"
    /\ StartedReturn(t, FALSE)
    /\ StartedFrame

(* mutant: rte_xabort has no effect and control reaches return 1 *)
StartedCheckFallThrough(t) ==
    /\ pc[t] = "started"
    /\ StartedReturn(t, TRUE)
    /\ StartedFrame

(* mutant: if (!*lock) rte_xabort(RTE_XABORT_LOCK_BUSY) *)
StartedCheckInverted(t) ==
    /\ pc[t] = "started"
    /\ IF lock = 0 THEN StartedAbort(t) ELSE StartedReturn(t, TRUE)
    /\ StartedFrame

(* mutant: if ( *lock ) break; the transaction is left open *)
StartedCheckBreak(t) ==
    /\ pc[t] = "started"
    /\ IF lock # 0
       THEN /\ pc' = [pc EXCEPT ![t] = "return0"]
            /\ readSet' = [readSet EXCEPT ![t] = TRUE]
            /\ UNCHANGED <<status, inTx, ret, obs>>
       ELSE StartedReturn(t, TRUE)
    /\ StartedFrame

(* if (unlikely( *lock )) rte_xabort(RTE_XABORT_LOCK_BUSY); return 1;      *)
(* The read of *lock is made inside the transaction.  rte_xabort rolls   *)
(* the transaction back and resumes after rte_xbegin with the explicit   *)
(* status, that is in the failure branch of the same iteration.          *)
StartedCheck(t) ==
    /\ pc[t] = "started"
    /\ IF lock # 0 THEN StartedAbort(t) ELSE StartedReturn(t, TRUE)
    /\ StartedFrame

(* mutant: while (! *lock ) { __builtin_ia32_pause(); } *)
SpinInverted(t) ==
    /\ pc[t] = "spin"
    /\ IF lock = 0
       THEN /\ pc' = pc
            /\ obs' = Track(t, [obs[t] EXCEPT !.spins = IF @ < MaxSpin THEN @ + 1 ELSE @,
                                              !.readFree = TRUE])
       ELSE /\ pc' = [pc EXCEPT ![t] = "classify"]
            /\ obs' = Track(t, [obs[t] EXCEPT !.readFree = FALSE, !.afterAbort = "wait"])
    /\ UNCHANGED <<lock, owner, retries, status, try_count, pause_count, tsc, ret, inTx,
                   readSet, tracked>>

(* mutant: an abort without RTE_XABORT_RETRY is not waited for *)
SpinIfRetryable(t) ==
    /\ pc[t] = "spin"
    /\ IF lock # 0 /\ status[t] \cap RTE_XABORT_RETRY # {}
       THEN /\ pc' = pc
            /\ obs' = Track(t, [obs[t] EXCEPT !.spins = IF @ < MaxSpin THEN @ + 1 ELSE @,
                                              !.readFree = FALSE])
       ELSE /\ pc' = [pc EXCEPT ![t] = "classify"]
            /\ obs' = Track(t, [obs[t] EXCEPT !.readFree = TRUE, !.afterAbort = "free"])
    /\ UNCHANGED <<lock, owner, retries, status, try_count, pause_count, tsc, ret, inTx,
                   readSet, tracked>>

(* while ( *lock ) { __builtin_ia32_pause(); } *)
Spin(t) ==
    /\ pc[t] = "spin"
    /\ IF lock # 0
       THEN /\ pc' = pc
            /\ obs' = Track(t, [obs[t] EXCEPT !.spins = IF @ < MaxSpin THEN @ + 1 ELSE @,
                                              !.readFree = FALSE])
       ELSE /\ pc' = [pc EXCEPT ![t] = "classify"]
            /\ obs' = Track(t, [obs[t] EXCEPT !.readFree = TRUE, !.afterAbort = "free"])
    /\ UNCHANGED <<lock, owner, retries, status, try_count, pause_count, tsc, ret, inTx,
                   readSet, tracked>>

(* mutant: the backoff path is taken only with RTE_XABORT_RETRY set *)
IsTransientIfRetry(s) ==
    /\ s \cap RTE_XABORT_RETRY # {}
    /\ \/ s \cap RTE_XABORT_CONFLICT # {}
       \/ /\ s \cap RTE_XABORT_EXPLICIT # {}
          /\ RTE_XABORT_CODE(s) = RTE_XABORT_LOCK_BUSY

(* (status & RTE_XABORT_CONFLICT) ||                                     *)
(* ((status & RTE_XABORT_EXPLICIT) &&                                    *)
(*  (RTE_XABORT_CODE(status) == RTE_XABORT_LOCK_BUSY))                   *)
IsTransient(s) ==
    \/ s \cap RTE_XABORT_CONFLICT # {}
    \/ /\ s \cap RTE_XABORT_EXPLICIT # {}
       /\ RTE_XABORT_CODE(s) = RTE_XABORT_LOCK_BUSY

(* mutant: (status & RTE_XABORT_RETRY) != 0 *)
IsFatalInverted(s) == s \cap RTE_XABORT_RETRY # {}

(* mutant: a nested abort is never taken for final *)
IsFatalNotNested(s) == s \cap RTE_XABORT_RETRY = {} /\ s \cap RTE_XABORT_NESTED = {}

(* (status & RTE_XABORT_RETRY) == 0 *)
IsFatal(s) == s \cap RTE_XABORT_RETRY = {}

(* mutant: every abort that is retried is retried after a backoff *)
ClassifyBackoffOnRetry(t) ==
    /\ pc[t] = "classify"
    /\ pc' = [pc EXCEPT ![t] = IF IsTransient(status[t]) \/ ~IsFatal(status[t])
                               THEN "backoff" ELSE "return0"]
    /\ status' = [status EXCEPT ![t] = IF IsTransient(status[t]) \/ ~IsFatal(status[t])
                                       THEN @ ELSE NoStatus]
    /\ UNCHANGED <<lock, owner, retries, try_count, pause_count, tsc, ret, inTx, readSet,
                   tracked, obs>>

(* the two if statements that follow the busy-wait; status leaves     *)
(* scope where the iteration ends                                      *)
Classify(t) ==
    /\ pc[t] = "classify"
    /\ pc' = [pc EXCEPT ![t] = IF IsTransient(status[t]) THEN "backoff"
                               ELSE IF IsFatal(status[t]) THEN "return0"
                               ELSE "while"]
    /\ status' = [status EXCEPT ![t] = IF IsTransient(status[t]) THEN @ ELSE NoStatus]
    /\ UNCHANGED <<lock, owner, retries, try_count, pause_count, tsc, ret, inTx, readSet,
                   tracked, obs>>

(* mutant: the attempt number is counted from zero *)
TryCountFromZero(r) == RTE_RTM_MAX_RETRIES - r - 1

(* RTE_RTM_MAX_RETRIES - retries *)
TryCount(r) == RTE_RTM_MAX_RETRIES - r

(* mutant: rte_rdtsc() & 0x7, the low bit is not forced *)
JitterNoOr(c) == (c \cap {0, 1, 2}) \cap (0..31)

(* mutant: rte_rdtsc() | 1, the mask is left out *)
JitterNoMask(c) == (c \cup {0}) \cap (0..31)

(* (rte_rdtsc() & 0x7) | 1, converted to int *)
Jitter(c) == ((c \cap {0, 1, 2}) \cup {0}) \cap (0..31)

(* const int try_count = RTE_RTM_MAX_RETRIES - retries;                  *)
(* int pause_count = (rte_rdtsc() & 0x7) | 1; pause_count <<= try_count; *)
Backoff(t, lo_32, hi_32) ==
    /\ pc[t] = "backoff"
    /\ pc' = [pc EXCEPT ![t] = "pause"]
    /\ tsc' = [tsc EXCEPT ![t] = rte_rdtsc(lo_32, hi_32)]
    /\ try_count' = [try_count EXCEPT ![t] = TryCount(retries[t])]
    /\ pause_count' = [pause_count EXCEPT ![t] =
                         ToInt32(ShiftLeft32(Jitter(rte_rdtsc(lo_32, hi_32)),
                                             TryCount(retries[t])))]
    /\ obs' = Track(t, [obs[t] EXCEPT !.rdtscs = @ + 1])
    /\ UNCHANGED <<lock, owner, retries, status, ret, inTx, readSet, tracked>>

(* mutant: a backoff of more than 8 pauses is not made, the call gives up *)
PauseLoopGivesUp(t) ==
    /\ pc[t] = "pause"
    /\ pc' = [pc EXCEPT ![t] = IF pause_count[t] > 8 THEN "return0" ELSE "while"]
    /\ obs' = Track(t, [obs[t] EXCEPT !.pauses = IF pause_count[t] > 8 THEN 0
                                                 ELSE pause_count[t]])
    /\ status' = [status EXCEPT ![t] = NoStatus]
    /\ try_count' = [try_count EXCEPT ![t] = 0]
    /\ pause_count' = [pause_count EXCEPT ![t] = 0]
    /\ tsc' = [tsc EXCEPT ![t] = {}]
    /\ UNCHANGED <<lock, owner, retries, ret, inTx, readSet, tracked>>

(* number of iterations of for (int i = 0; i < pause_count; ++i) *)
PauseIterations(n) == IF n > 0 THEN n ELSE 0

(* for (int i = 0; i < pause_count; ++i) __builtin_ia32_pause(); continue; *)
PauseLoop(t) ==
    /\ pc[t] = "pause"
    /\ pc' = [pc EXCEPT ![t] = "while"]
    /\ obs' = Track(t, [obs[t] EXCEPT !.pauses = PauseIterations(pause_count[t])])
    /\ status' = [status EXCEPT ![t] = NoStatus]
    /\ try_count' = [try_count EXCEPT ![t] = 0]
    /\ pause_count' = [pause_count EXCEPT ![t] = 0]
    /\ tsc' = [tsc EXCEPT ![t] = {}]
    /\ UNCHANGED <<lock, owner, retries, ret, inTx, readSet, tracked>>

(* mutant: the flag is taken before the return of 0 *)
Return0TakesFlag(t) ==
    /\ pc[t] = "return0"
    /\ pc' = [pc EXCEPT ![t] = "returned"]
    /\ ret' = [ret EXCEPT ![t] = 0]
    /\ lock' = 1
    /\ UNCHANGED <<owner, retries, status, try_count, pause_count, tsc, inTx, readSet,
                   tracked, obs>>

(* return 0; *)
Return0(t) ==
    /\ pc[t] = "return0"
    /\ pc' = [pc EXCEPT ![t] = "returned"]
    /\ ret' = [ret EXCEPT ![t] = 0]
    /\ UNCHANGED <<lock, owner, retries, status, try_count, pause_count, tsc, inTx, readSet,
                   tracked, obs>>

(* rte_xend(): the caller commits the region it was given *)
rte_xend(t) ==
    /\ pc[t] = "returned"
    /\ ret[t] = 1
    /\ inTx[t]
    /\ pc' = [pc EXCEPT ![t] = "idle"]
    /\ inTx' = [inTx EXCEPT ![t] = FALSE]
    /\ readSet' = [readSet EXCEPT ![t] = FALSE]
    /\ UNCHANGED <<lock, owner, retries, status, try_count, pause_count, tsc, ret, tracked, obs>>

(* ------------------------------------------------------------------ *)
(* Hardware and the fallback lock                                      *)
(* ------------------------------------------------------------------ *)

(* the hardware rolls an open transaction back: execution resumes      *)
(* after its rte_xbegin with the abort status s                        *)
TxAbort(t, s) ==
    /\ inTx[t]
    /\ pc[t] \in {"started", "returned"}
    /\ s # RTE_XBEGIN_STARTED
    /\ pc' = [pc EXCEPT ![t] = "spin"]
    /\ status' = [status EXCEPT ![t] = s]
    /\ inTx' = [inTx EXCEPT ![t] = FALSE]
    /\ readSet' = [readSet EXCEPT ![t] = FALSE]
    /\ ret' = [ret EXCEPT ![t] = 0]
    /\ obs' = Track(t, [obs[t] EXCEPT !.onlyStarted = FALSE, !.afterAbort = "wait"])
    /\ UNCHANGED <<lock, owner, retries, try_count, pause_count, tsc, tracked>>

(* threads whose open transaction has the flag in its read set *)
Readers(w) == {u \in Threads \ {w} : inTx[u] /\ readSet[u]}

(* a write of v to the flag by thread w: every transaction that read   *)
(* the flag is rolled back with the conflict status s                  *)
WriteFlag(w, v, s) ==
    /\ lock' = v
    /\ pc' = [u \in Threads |-> IF u \in Readers(w) THEN "spin"
                                ELSE IF u = w THEN (IF v # 0 THEN "locked" ELSE "idle")
                                ELSE pc[u]]
    /\ status' = [u \in Threads |-> IF u \in Readers(w) THEN s ELSE status[u]]
    /\ inTx' = [u \in Threads |-> IF u \in Readers(w) THEN FALSE ELSE inTx[u]]
    /\ readSet' = [u \in Threads |-> IF u \in Readers(w) THEN FALSE ELSE readSet[u]]
    /\ ret' = [u \in Threads |-> IF u \in Readers(w) THEN 0 ELSE ret[u]]
    /\ obs' = [u \in Threads |->
                 IF u \notin tracked THEN obs[u]
                 ELSE [obs[u] EXCEPT !.sawHeld = @ \/ (v # 0),
                                     !.sawFree = @ \/ (v = 0),
                                     !.onlyStarted = @ /\ (u \notin Readers(w)),
                                     !.afterAbort = IF u \in Readers(w) THEN "wait" ELSE @]]

(* the fallback lock is taken, after rte_try_tm returned 0 or without  *)
(* an elision attempt                                                  *)
Lock(t, v, s) ==
    /\ pc[t] = "idle" \/ (pc[t] = "returned" /\ ret[t] = 0)
    /\ lock = 0
    /\ owner' = t
    /\ WriteFlag(t, v, s)
    /\ UNCHANGED <<retries, try_count, pause_count, tsc, tracked>>

(* the fallback lock is released *)
Unlock(t, s) ==
    /\ pc[t] = "locked"
    /\ owner = t
    /\ owner' = NoOwner
    /\ WriteFlag(t, 0, s)
    /\ UNCHANGED <<retries, try_count, pause_count, tsc, tracked>>

(* ------------------------------------------------------------------ *)
(* Specifications                                                      *)
(* ------------------------------------------------------------------ *)

(* the steps of a call of rte_try_tm in progress *)
Running(t, S) ==
    \/ LoopTest(t)
    \/ XBeginStarted(t)
    \/ \E s \in S : XBeginAbort(t, s)
    \/ StartedCheck(t)
    \/ Spin(t)
    \/ Classify(t)
    \/ \E c \in TscReads : Backoff(t, c[1], c[2])
    \/ PauseLoop(t)
    \/ Return0(t)

(* one instrumented caller of rte_try_tm; the other thread uses the    *)
(* fallback lock directly                                              *)
Next ==
    \/ Call(Caller)
    \/ Running(Caller, AbortStatuses)
    \/ rte_xend(Caller)
    \/ \E s \in AbortStatuses : TxAbort(Caller, s)
    \/ \E t \in Threads, v \in HeldValues, s \in ConflictStatuses : Lock(t, v, s)
    \/ \E t \in Threads, s \in ConflictStatuses : Unlock(t, s)

Spec == Init /\ [][Next]_vars

(* no call is instrumented *)
MTInit == InitProg /\ tracked = {}

(* the caller's thread keeps running while it is inside rte_try_tm;    *)
(* nothing is assumed of the fallback lock or of the hardware          *)
FairSpec == Spec /\ WF_vars(Running(Caller, AbortStatuses))

(* the same without instrumentation *)
LiveSpec == MTInit /\ [][Next]_vars /\ WF_vars(Running(Caller, AbortStatuses))

(* every abort reported to the caller carries RTE_XABORT_NESTED, in   *)
(* each combination with the other flags; no call is instrumented     *)
NestedNext ==
    \/ Call(Caller)
    \/ Running(Caller, NestedStatuses)
    \/ rte_xend(Caller)
    \/ \E s \in NestedStatuses : TxAbort(Caller, s)
    \/ \E t \in Threads, v \in HeldValues, s \in ConflictStatuses : Lock(t, v, s)
    \/ \E t \in Threads, s \in ConflictStatuses : Unlock(t, s)

NestedSpec == MTInit /\ [][NestedNext]_vars

(* rte_xbegin and the hardware report any abort status; no call is    *)
(* instrumented                                                        *)
StatusNext ==
    \/ Call(Caller)
    \/ Running(Caller, AllStatuses)
    \/ rte_xend(Caller)
    \/ \E s \in AllStatuses : TxAbort(Caller, s)
    \/ \E t \in Threads, v \in HeldValues, s \in ConflictStatuses : Lock(t, v, s)
    \/ \E t \in Threads, s \in ConflictStatuses : Unlock(t, s)

StatusSpec == MTInit /\ [][StatusNext]_vars

(* several threads elide the same lock and fall back to it *)
MTNext ==
    \E t \in Threads :
        \/ Call(t)
        \/ Running(t, ContendedStatuses)
        \/ rte_xend(t)
        \/ \E s \in ContendedStatuses : TxAbort(t, s)
        \/ \E v \in HeldValues, s \in ConflictStatuses : Lock(t, v, s)
        \/ \E s \in ConflictStatuses : Unlock(t, s)

SpecMT == MTInit /\ [][MTNext]_vars

(* Two runs of rte_try_tm side by side: thread Follower repeats each   *)
(* step of thread Caller with the same result of rte_xbegin and the    *)
(* same value of the flag, and with a counter value of its own.        *)
Follower == "t2"

(* where a run is and what its locals hold, the counter value and the  *)
(* pause count left out                                                *)
TwinLow(t) ==
    <<pc[t], retries[t], status[t], try_count[t], ret[t], inTx[t], readSet[t]>>

InStep == TwinLow(Caller) = TwinLow(Follower)

(* the holder of the fallback lock, a thread outside the two runs,     *)
(* writes the flag while the runs are at the same step                 *)
TwinWrite(v, s) ==
    /\ InStep
    /\ lock # v
    /\ WriteFlag(NoOwner, v, s)
    /\ UNCHANGED <<owner, retries, try_count, pause_count, tsc, tracked>>

TwinLead ==
    /\ InStep
    /\ Call(Caller) \/ Running(Caller, AbortStatuses)

TwinFollow ==
    /\ ~InStep
    /\ \/ Call(Follower)
       \/ LoopTest(Follower)
       \/ pc[Caller] = "started" /\ XBeginStarted(Follower)
       \/ pc[Caller] = "spin" /\ XBeginAbort(Follower, status[Caller])
       \/ StartedCheck(Follower)
       \/ Spin(Follower)
       \/ Classify(Follower)
       \/ \E c \in TscReads : Backoff(Follower, c[1], c[2])
       \/ PauseLoop(Follower)
       \/ Return0(Follower)

TwinNext ==
    \/ TwinLead
    \/ TwinFollow
    \/ \E v \in {0} \cup HeldValues, s \in ConflictStatuses : TwinWrite(v, s)

TwinSpec == MTInit /\ [][TwinNext]_vars

(* ------------------------------------------------------------------ *)
(* Properties                                                          *)
(* ------------------------------------------------------------------ *)

Returned(t, r) == pc[t] = "returned" /\ ret[t] = r

(* the status is that of an explicit abort with code 0xFF *)
IsLockBusy(s) == 0 \in s /\ (24..31) \subseteq s

(* C1 as claimed: if the flag is nonzero for the whole of a call and   *)
(* every rte_xbegin reports Started, the call returns 0 after exactly  *)
(* 20 iterations, each with one explicit abort.                        *)
C1_AsClaimed ==
    [](pc[Caller] \in InCall => lock # 0 /\ obs[Caller].onlyStarted)
        => [](pc[Caller] = "started"
                => <>(/\ Returned(Caller, 0)
                      /\ obs[Caller].begins = RTE_RTM_MAX_RETRIES
                      /\ obs[Caller].xaborts = RTE_RTM_MAX_RETRIES))

(* C1 amended: while every rte_xbegin reports Started and every read   *)
(* made inside the transaction finds the flag nonzero, each iteration  *)
(* issues one explicit abort with code 0xFF and consumes one retry; a  *)
(* return of 0 then comes after exactly 20 iterations and 20 explicit  *)
(* aborts, and only if the flag was zero at some time: with the flag   *)
(* nonzero throughout, the call stays in the busy-wait of its first    *)
(* iteration and never returns.                                        *)
C1_BusyRun ==
    \A t \in tracked :
        (pc[t] \in InCall \cup {"returned"} /\ obs[t].onlyStarted) =>
            /\ pc[t] \in {"spin", "classify", "backoff", "pause"} =>
                 /\ IsLockBusy(status[t])
                 /\ obs[t].xaborts = obs[t].begins
                 /\ retries[t] = RTE_RTM_MAX_RETRIES - obs[t].begins
            /\ Returned(t, 0) =>
                 /\ obs[t].begins = RTE_RTM_MAX_RETRIES
                 /\ obs[t].xaborts = RTE_RTM_MAX_RETRIES
                 /\ obs[t].sawFree
            /\ ~obs[t].sawFree =>
                 /\ pc[t] \in {"while", "xbegin", "started", "spin"}
                 /\ obs[t].begins <= 1

C1_Witness ==
    /\ Returned(Caller, 0)
    /\ obs[Caller].onlyStarted
    /\ obs[Caller].xaborts = RTE_RTM_MAX_RETRIES

(* C2 as claimed: every call of rte_try_tm eventually returns, also in *)
(* the runs in which the fallback lock is taken and never released.    *)
C2_AsClaimed ==
    <>[](lock # 0) => ((pc[Caller] \in InCall) ~> (pc[Caller] = "returned"))

(* C2 amended: every call of rte_try_tm eventually returns provided it *)
(* does not stay in the busy-wait on the flag for ever; the retry      *)
(* count bounds the iterations, not the busy-wait.                     *)
C2_Terminates ==
    []<>(pc[Caller] # "spin") => ((pc[Caller] \in InCall) ~> (pc[Caller] = "returned"))

(* a call that had to busy-wait has returned while the lock is held *)
C2_Witness ==
    /\ Returned(Caller, 0)
    /\ retries[Caller] = -1
    /\ owner \in Threads \ {Caller}
    /\ lock # 0

(* C3: no thread is inside a live transactional region it was given by *)
(* a return of 1 while another thread holds the fallback lock.         *)
C3_MutualExclusion ==
    \A t \in Threads :
        ~(Returned(t, 1) /\ inTx[t] /\ owner \in Threads \ {t})

(* a region handed out by a return of 1 has just been rolled back by   *)
(* the other thread's acquisition of the fallback lock                 *)
C3_Witness ==
    \E t \in Threads :
        /\ pc[t] = "spin"
        /\ status[t] = RTE_XABORT_CONFLICT
        /\ owner \in Threads \ {t}
        /\ lock # 0

(* C4: a return of 1 comes only from the Started branch with the flag  *)
(* read as zero inside the transaction; a nonzero read leads to the    *)
(* failure branch of the same iteration with the explicit status of    *)
(* code 0xFF, never to a return.                                       *)
C4_EnteredOnlyIfFree ==
    [][\A t \in tracked :
         /\ (Returned(t, 1)' /\ pc[t] # "returned") =>
              /\ pc[t] = "started"
              /\ status[t] = RTE_XBEGIN_STARTED
              /\ inTx[t]
              /\ lock = 0
         /\ (pc[t] = "started" /\ lock # 0 /\ pc'[t] # "started") =>
              /\ pc'[t] = "spin"
              /\ ~inTx'[t]
              /\ retries'[t] = retries[t]
              /\ obs'[t].begins = obs[t].begins
              /\ \/ obs'[t].xaborts = obs[t].xaborts + 1 /\ IsLockBusy(status'[t])
                                                        /\ status'[t] \cap (1..23) = {}
                 \/ obs'[t].xaborts = obs[t].xaborts /\ ~obs'[t].onlyStarted
    ]_vars

C4_Witness ==
    /\ pc[Caller] = "spin"
    /\ IsLockBusy(status[Caller])
    /\ obs[Caller].xaborts = 2
    /\ obs[Caller].onlyStarted

(* C5: with the flag zero throughout and the first rte_xbegin          *)
(* reporting Started, the call returns 1 after that one rte_xbegin,    *)
(* without rte_xabort, pause or rte_rdtsc, and without a retry: the    *)
(* loop test of the entering iteration is the only decrement of        *)
(* retries.                                                            *)
C5_FirstTry ==
    \A t \in tracked :
        (/\ pc[t] \in InCall \cup {"returned"}
         /\ obs[t].begins >= 1
         /\ obs[t].onlyStarted
         /\ ~obs[t].sawHeld) =>
            /\ pc[t] \in {"started", "returned"}
            /\ pc[t] = "returned" => ret[t] = 1
            /\ obs[t].begins = 1
            /\ obs[t].xaborts = 0
            /\ obs[t].spins = 0
            /\ obs[t].pauses = 0
            /\ obs[t].rdtscs = 0
            /\ retries[t] = RTE_RTM_MAX_RETRIES - 1

C5_Witness ==
    /\ Returned(Caller, 1)
    /\ obs[Caller].begins = 1
    /\ obs[Caller].onlyStarted
    /\ ~obs[Caller].sawHeld

(* C6: with the flag zero throughout and every rte_xbegin reporting a  *)
(* conflict abort, each of the 20 iterations reads the counter and     *)
(* pauses, the last one included, and the call returns 0 after 20      *)
(* calls of rte_xbegin.                                                *)
C6_AllConflict ==
    \A t \in tracked :
        (/\ pc[t] \in InCall \cup {"returned"}
         /\ obs[t].onlyConflict
         /\ ~obs[t].sawHeld) =>
            /\ obs[t].xaborts = 0
            /\ obs[t].spins = 0
            /\ pc[t] \in {"spin", "classify", "backoff"} =>
                 obs[t].rdtscs = obs[t].begins - 1
            /\ pc[t] \in {"pause", "while", "xbegin", "return0", "returned"} =>
                 obs[t].rdtscs = obs[t].begins
            /\ pc[t] \in {"while", "return0", "returned"} /\ obs[t].begins > 0 =>
                 obs[t].pauses > 0
            /\ pc[t] \in {"return0", "returned"} =>
                 /\ obs[t].begins = RTE_RTM_MAX_RETRIES
                 /\ retries[t] = -1
            /\ pc[t] = "returned" => ret[t] = 0

C6_Witness ==
    /\ Returned(Caller, 0)
    /\ obs[Caller].onlyConflict
    /\ ~obs[Caller].sawHeld
    /\ obs[Caller].rdtscs = RTE_RTM_MAX_RETRIES

(* the status has neither the retry flag nor the conflict flag and is  *)
(* not an explicit abort with code 0xFF                                *)
NonRetryable(s) == 1 \notin s /\ 2 \notin s /\ ~IsLockBusy(s)

(* C7: once the busy-wait has seen the flag zero, an abort status      *)
(* without retry hint, conflict or explicit 0xFF takes the call out of *)
(* the loop and to a return of 0, without another rte_xbegin and       *)
(* without backoff, on any iteration.                                  *)
C7_BreakAtOnce ==
    [][\A t \in tracked :
         /\ (pc[t] = "spin" /\ NonRetryable(status[t]) /\ pc'[t] # "spin") =>
              /\ lock = 0
              /\ pc'[t] = "classify"
              /\ status'[t] = status[t]
              /\ obs'[t] = [obs[t] EXCEPT !.readFree = TRUE, !.afterAbort = "free"]
         /\ (pc[t] = "classify" /\ NonRetryable(status[t]) /\ pc'[t] # "classify") =>
              /\ pc'[t] = "return0"
              /\ retries'[t] = retries[t]
              /\ obs'[t] = obs[t]
         /\ (pc[t] = "return0" /\ pc'[t] # "return0") =>
              /\ Returned(t, 0)'
              /\ obs'[t].begins = obs[t].begins
              /\ obs'[t].rdtscs = obs[t].rdtscs
              /\ obs'[t].pauses = obs[t].pauses
    ]_vars

C7_Witness ==
    /\ Returned(Caller, 0)
    /\ retries[Caller] = 7
    /\ obs[Caller].begins = RTE_RTM_MAX_RETRIES - 7
    /\ obs[Caller].rdtscs = 0

(* C8: the flag changes only when a thread that is outside rte_try_tm  *)
(* takes or releases the fallback lock; no step of rte_try_tm writes   *)
(* it.                                                                 *)
C8_NeverWritesFlag ==
    [][lock' # lock =>
         \E w \in Threads :
            /\ pc[w] \notin InCall
            /\ \/ pc'[w] = "locked" /\ owner' = w /\ owner = NoOwner
               \/ pc[w] = "locked" /\ owner = w /\ owner' = NoOwner /\ pc'[w] = "idle"
    ]_vars

C8_Witness ==
    /\ lock # 0
    /\ pc[Caller] = "pause"
    /\ obs[Caller].spins > 0
    /\ obs[Caller].xaborts > 0

(* C9: a return of 1 leaves the thread inside the uncommitted region   *)
(* opened by its last rte_xbegin, a return of 0 leaves it outside any  *)
(* region.                                                             *)
C9_Ownership ==
    \A t \in Threads :
        /\ Returned(t, 1) => inTx[t] /\ readSet[t] /\ status[t] = RTE_XBEGIN_STARTED
                                     /\ rte_xtest(t) = 1
        /\ Returned(t, 0) => ~inTx[t] /\ rte_xtest(t) = 0
        /\ pc[t] \notin {"started", "returned"} => ~inTx[t]

C9_Witness ==
    /\ Returned(Caller, 0)
    /\ ~inTx[Caller]
    /\ obs[Caller].xaborts > 0
    /\ retries[Caller] >= 0

(* (readCycles() & 0x7) | 1 as a number *)
JitterOf(c) == 1 + (IF 1 \in c THEN 2 ELSE 0) + (IF 2 \in c THEN 4 ELSE 0)

(* C10: the backoff of an iteration whose abort is a conflict or an    *)
(* explicit 0xFF executes exactly jitter << tryCount pauses, where     *)
(* tryCount = 20 - retries is the number of rte_xbegin calls made so   *)
(* far, from 1 to 20.                                                  *)
C10_PauseCount ==
    [][\A t \in tracked :
         /\ pc'[t] = "pause" =>
              /\ 2 \in status'[t] \/ IsLockBusy(status'[t])
              /\ try_count'[t] = obs'[t].begins
              /\ try_count'[t] = RTE_RTM_MAX_RETRIES - retries'[t]
              /\ try_count'[t] \in 1..RTE_RTM_MAX_RETRIES
              /\ pause_count'[t] = JitterOf(tsc'[t]) * Pow2(try_count'[t])
         /\ (pc[t] = "pause" /\ pc'[t] # "pause") =>
              /\ pc'[t] = "while"
              /\ obs'[t].pauses = JitterOf(tsc[t]) * Pow2(obs[t].begins)
    ]_vars

C10_Witness ==
    /\ pc[Caller] = "while"
    /\ obs[Caller].begins = RTE_RTM_MAX_RETRIES
    /\ obs[Caller].pauses = 7 * Pow2(RTE_RTM_MAX_RETRIES)

(* C11: for each jitter 1, 3, 5, 7 the pause count jitter << tryCount  *)
(* grows strictly with tryCount over 1..20, and for every pair the     *)
(* loop reaches it is positive and inside the signed 32-bit range: no  *)
(* bit of the jitter reaches the sign bit or is shifted out.           *)
C11_NoWraparound ==
    \A t \in tracked :
        pc[t] = "pause" =>
            /\ try_count[t] \in 1..RTE_RTM_MAX_RETRIES
            /\ pause_count[t] > 0
            /\ pause_count[t] <= (Pow2(30) - 1) + Pow2(30)
            /\ \A b \in Jitter(tsc[t]) : b + try_count[t] <= 30
            /\ pause_count[t] = JitterOf(tsc[t]) * Pow2(try_count[t])
            /\ pause_count[t] > ToInt32(ShiftLeft32(Jitter(tsc[t]), try_count[t] - 1))
            /\ \A n \in 1..(try_count[t] - 1) :
                  ToInt32(ShiftLeft32(Jitter(tsc[t]), n))
                      < ToInt32(ShiftLeft32(Jitter(tsc[t]), n + 1))

(* the largest pause count: jitter 7 on the 20th attempt *)
C11_Witness ==
    /\ pc[Caller] = "pause"
    /\ try_count[Caller] = RTE_RTM_MAX_RETRIES
    /\ JitterOf(tsc[Caller]) = 7
    /\ pause_count[Caller] = 7340032

(* C12 as claimed: an abort with the nested flag and without the retry *)
(* flag takes the call out of the loop, whatever the other flags are.  *)
C12_AsClaimed ==
    [][\A t \in Threads :
         (/\ pc[t] = "classify"
          /\ status[t] \cap RTE_XABORT_NESTED # {}
          /\ status[t] \cap RTE_XABORT_RETRY = {}
          /\ pc'[t] # "classify") => pc'[t] = "return0"
    ]_vars

(* C12 amended: an abort with the nested flag and without the retry    *)
(* flag takes the call out of the loop and to a return of 0 without    *)
(* another rte_xbegin, for every combination of the explicit, capacity *)
(* and debug flags and of the code, unless the status also has the     *)
(* conflict flag or is an explicit abort with code 0xFF: the test for  *)
(* those comes first, and such an abort is retried after a backoff.    *)
C12_NestedBreaks ==
    [][\A t \in Threads :
         /\ (/\ pc[t] = "classify"
             /\ status[t] \cap RTE_XABORT_NESTED # {}
             /\ status[t] \cap RTE_XABORT_RETRY = {}
             /\ pc'[t] # "classify") =>
                /\ retries'[t] = retries[t]
                /\ pc'[t] = IF 2 \in status[t] \/ IsLockBusy(status[t])
                            THEN "backoff" ELSE "return0"
         /\ (pc[t] = "return0" /\ pc'[t] # "return0") => Returned(t, 0)'
    ]_vars

(* the first abort of a call, a nested one, has ended the call *)
C12_Witness ==
    /\ Returned(Caller, 0)
    /\ retries[Caller] = RTE_RTM_MAX_RETRIES - 1
    /\ ~inTx[Caller]
    /\ lock = 0

(* C13: an abort with the conflict flag, or an explicit one with code  *)
(* 0xFF, is retried after a backoff and costs one retry, with or       *)
(* without the retry flag; what follows does not depend on which of    *)
(* the two it was: the pause count is a function of the counter value  *)
(* and of retries alone, and the status is gone when the backoff ends. *)
(* An explicit abort with another code and no conflict flag never      *)
(* reaches the backoff.                                                *)
C13_Precedence ==
    [][\A t \in Threads :
         /\ (/\ pc[t] = "classify"
             /\ 2 \in status[t] \/ IsLockBusy(status[t])
             /\ pc'[t] # "classify") =>
                /\ pc'[t] = "backoff"
                /\ retries'[t] = retries[t]
         /\ (/\ pc[t] = "classify"
             /\ 0 \in status[t]
             /\ ~IsLockBusy(status[t])
             /\ 2 \notin status[t]
             /\ pc'[t] # "classify") =>
                /\ pc'[t] = IF 1 \in status[t] THEN "while" ELSE "return0"
                /\ retries'[t] = retries[t]
         /\ (pc'[t] = "backoff" /\ pc[t] # "backoff") =>
                /\ pc[t] = "classify"
                /\ 2 \in status[t] \/ IsLockBusy(status[t])
         /\ (pc[t] = "backoff" /\ pc'[t] # "backoff") =>
                /\ pc'[t] = "pause"
                /\ retries'[t] = retries[t]
                /\ pause_count'[t] =
                      JitterOf(tsc'[t]) * Pow2(RTE_RTM_MAX_RETRIES - retries[t])
         /\ (pc[t] = "pause" /\ pc'[t] # "pause") =>
                /\ pc'[t] = "while"
                /\ retries'[t] = retries[t]
                /\ status'[t] = NoStatus
                /\ ret'[t] = ret[t]
                /\ ~inTx'[t]
         /\ (pc[t] = "while" /\ pc'[t] # "while") =>
                /\ retries'[t] = retries[t] - 1
                /\ pc'[t] = IF retries[t] # 0 THEN "xbegin" ELSE "return0"
    ]_vars

(* the backoff of an explicit abort with code 0xFF that has neither    *)
(* the retry flag nor the conflict flag                                *)
C13_Witness ==
    /\ pc[Caller] = "pause"
    /\ IsLockBusy(status[Caller])
    /\ 1 \notin status[Caller]
    /\ 2 \notin status[Caller]
    /\ try_count[Caller] = 2

(* the status has the retry flag, no conflict flag, and is not an      *)
(* explicit abort with code 0xFF                                       *)
RetryOnly(s) == 1 \in s /\ 2 \notin s /\ ~IsLockBusy(s)

(* C14: an abort with the retry flag, without conflict and without     *)
(* explicit 0xFF sends the call straight back to the loop test, where  *)
(* it costs one retry: no rte_rdtsc, no backoff pause.  With the flag  *)
(* zero throughout and only such aborts, the call makes 20 rte_xbegin  *)
(* calls and no rte_rdtsc call and returns 0.                          *)
C14_RetryAtOnce ==
    [][\A t \in tracked :
         /\ (pc[t] = "classify" /\ RetryOnly(status[t]) /\ pc'[t] # "classify") =>
                /\ pc'[t] = "while"
                /\ retries'[t] = retries[t]
                /\ obs'[t] = obs[t]
                /\ obs[t].pauses = 0
         /\ (pc[t] = "while" /\ pc'[t] # "while") =>
                /\ retries'[t] = retries[t] - 1
                /\ obs'[t] = obs[t]
         /\ (/\ pc'[t] \in InCall \cup {"returned"}
             /\ obs'[t].onlyRetry
             /\ ~obs'[t].sawHeld) =>
                /\ obs'[t].rdtscs = 0
                /\ obs'[t].xaborts = 0
                /\ obs'[t].spins = 0
                /\ obs'[t].pauses = 0
                /\ pc'[t] \notin {"started", "backoff", "pause"}
                /\ pc'[t] = "xbegin" =>
                     obs'[t].begins = RTE_RTM_MAX_RETRIES - retries'[t] - 1
                /\ pc'[t] \in {"while", "spin", "classify"} =>
                     obs'[t].begins = RTE_RTM_MAX_RETRIES - retries'[t]
                /\ pc'[t] \in {"return0", "returned"} =>
                     /\ obs'[t].begins = RTE_RTM_MAX_RETRIES
                     /\ retries'[t] = -1
                /\ pc'[t] = "returned" => ret'[t] = 0
    ]_vars

C14_Witness ==
    /\ Returned(Caller, 0)
    /\ obs[Caller].onlyRetry
    /\ ~obs[Caller].sawHeld
    /\ obs[Caller].begins = RTE_RTM_MAX_RETRIES
    /\ obs[Caller].rdtscs = 0

(* C15: retries starts at 20 and the loop test of each iteration takes *)
(* one off before the iteration's single rte_xbegin: at the loop test, *)
(* and in the body from that rte_xbegin on, the number of rte_xbegin   *)
(* calls made plus retries is 20 (19 between the loop test and the     *)
(* call it leads to), and no call of rte_try_tm makes more than 20.    *)
C15_RetryBudget ==
    \A t \in tracked :
        /\ obs[t].begins \in 0..RTE_RTM_MAX_RETRIES
        /\ pc[t] = "while" =>
              obs[t].begins + retries[t] = RTE_RTM_MAX_RETRIES
        /\ pc[t] = "xbegin" =>
              /\ obs[t].begins + retries[t] = RTE_RTM_MAX_RETRIES - 1
              /\ retries[t] >= 0
        /\ (pc[t] \in {"started", "spin", "classify", "backoff", "pause"} \/ Returned(t, 1)) =>
              /\ obs[t].begins + retries[t] = RTE_RTM_MAX_RETRIES
              /\ retries[t] \in 0..(RTE_RTM_MAX_RETRIES - 1)
        /\ pc[t] = "return0" \/ Returned(t, 0) =>
              obs[t].begins = RTE_RTM_MAX_RETRIES - (IF retries[t] < 0 THEN 0 ELSE retries[t])

(* the body of the 20th iteration, after explicit aborts and busy-waits *)
C15_Witness ==
    /\ pc[Caller] = "classify"
    /\ obs[Caller].begins = RTE_RTM_MAX_RETRIES
    /\ retries[Caller] = 0
    /\ obs[Caller].xaborts > 0
    /\ obs[Caller].spins > 0

(* C16: a failed rte_xbegin, whether the hardware or rte_xabort rolled *)
(* the transaction back, is followed by the busy-wait on the flag and  *)
(* by nothing else: the call stays there while the flag is nonzero,    *)
(* and the classification, hence the backoff, the next rte_xbegin and  *)
(* the return, is reached only from the busy-wait at a read of zero,   *)
(* for every abort status.                                             *)
C16_SpinFirst ==
    [][\A t \in Threads :
         /\ (pc[t] \in {"xbegin", "started"} \/ (pc[t] = "returned" /\ inTx[t])) =>
                pc'[t] \in {pc[t], "started", "returned", "idle", "spin"}
         /\ (pc'[t] = "spin" /\ pc[t] # "spin") =>
                /\ pc[t] \in {"xbegin", "started", "returned"}
                /\ status'[t] # RTE_XBEGIN_STARTED
                /\ ~inTx'[t]
                /\ retries'[t] = retries[t]
         /\ (pc[t] = "spin" /\ lock # 0) => pc'[t] = "spin" /\ status'[t] = status[t]
         /\ (pc[t] = "spin" /\ pc'[t] # "spin") =>
                /\ lock = 0
                /\ pc'[t] = "classify"
                /\ status'[t] = status[t]
                /\ retries'[t] = retries[t]
         /\ (pc'[t] \in {"classify", "backoff", "pause"} /\ pc[t] # pc'[t]) =>
                pc[t] = (CASE pc'[t] = "classify" -> "spin"
                           [] pc'[t] = "backoff" -> "classify"
                           [] pc'[t] = "pause" -> "backoff")
    ]_vars

(* a call waits with a status that will end it, the flag being nonzero *)
C16_Witness ==
    /\ pc[Caller] = "spin"
    /\ lock # 0
    /\ status[Caller] = RTE_XABORT_NESTED \cup RTE_XABORT_CAPACITY
    /\ retries[Caller] = 3

(* C17: whatever 64-bit value rte_rdtsc returns, (value & 0x7) | 1 is  *)
(* 1, 3, 5 or 7, so the pause loop of every backoff runs at least      *)
(* once.                                                               *)
C17_JitterOdd ==
    [][\A t \in tracked :
         /\ (pc'[t] = "pause" /\ pc[t] # "pause") =>
                /\ ToInt32(Jitter(tsc'[t])) \in {1, 3, 5, 7}
                /\ ToInt32(Jitter(tsc'[t])) = JitterOf(tsc'[t])
                /\ pause_count'[t] >= ToInt32(Jitter(tsc'[t]))
                /\ PauseIterations(pause_count'[t]) >= 1
                /\ \A lo \in SUBSET {0, 1, 2, 3, 31}, hi \in {{}, {0}, 0..31} :
                      ToInt32(Jitter(rte_rdtsc(lo, hi))) \in {1, 3, 5, 7}
         /\ (pc[t] = "pause" /\ pc'[t] # "pause") => obs'[t].pauses >= 1
    ]_vars

(* the shortest backoff: counter value 0 on the first attempt *)
C17_Witness ==
    /\ pc[Caller] = "while"
    /\ obs[Caller].begins = 1
    /\ obs[Caller].rdtscs = 1
    /\ obs[Caller].pauses = 2

(* C18: of two runs of rte_try_tm that get the same results from       *)
(* rte_xbegin and see the same values of the flag, and read different  *)
(* counter values, the second one follows the first step for step:     *)
(* each of its steps takes it to the position, the retries, the status *)
(* and the result of the first, so that the two make the same          *)
(* rte_xbegin and rte_xabort calls and return the same value; only the *)
(* counter values and the pause counts differ.                         *)
C18_OnlyBackoffLength ==
    [][/\ ~InStep => InStep'
       /\ (pc'[Caller] = "returned" /\ pc'[Follower] = "returned") =>
             /\ ret'[Caller] = ret'[Follower]
             /\ retries'[Caller] = retries'[Follower]
       /\ \A t \in Threads :
             (pc'[t] # "pause" => tsc'[t] = {} /\ pause_count'[t] = 0)
    ]_vars

(* the two runs are in the backoff that follows the rte_xabort of      *)
(* their 20th attempt, with pause counts 1 << 20 and 7 << 20           *)
C18_Witness ==
    /\ pc[Caller] = "pause"
    /\ pc[Follower] = "pause"
    /\ IsLockBusy(status[Caller])
    /\ try_count[Follower] = RTE_RTM_MAX_RETRIES
    /\ pause_count[Follower] = Pow2(RTE_RTM_MAX_RETRIES)
    /\ pause_count[Caller] = 7 * pause_count[Follower]

(* C19: if from some time on the flag stays zero, a call of rte_try_tm *)
(* in progress whose thread keeps running returns 0 or 1, and it has   *)
(* then made at most 20 rte_xbegin calls: retries, which goes down by  *)
(* one before each rte_xbegin, is then 19 to 0, or -1 after the 20th.  *)
C19_ReturnsIfFree ==
    <>[](lock = 0) =>
        [](pc[Caller] \in InCall =>
             <>(/\ pc[Caller] = "returned"
                /\ ret[Caller] \in {0, 1}
                /\ retries[Caller] \in -1..(RTE_RTM_MAX_RETRIES - 1)
                /\ ret[Caller] = 1 => retries[Caller] >= 0))

(* the fallback lock has been released and the call has returned 0     *)
(* after its 20th attempt                                              *)
C19_Witness ==
    /\ Returned(Caller, 0)
    /\ retries[Caller] = -1
    /\ lock = 0
    /\ owner = NoOwner
    /\ pc[Follower] = "idle"

(* C20: a call that returns 0 has called rte_xbegin at least once, its *)
(* last transaction was rolled back, it has read the flag as zero      *)
(* since that rollback, and that zero is the latest value it has seen  *)
(* of the flag; it is outside any transaction.                         *)
C20_FallbackAfterAttempt ==
    \A t \in tracked :
        (pc[t] = "return0" \/ Returned(t, 0)) =>
            /\ obs[t].begins >= 1
            /\ obs[t].afterAbort = "free"
            /\ obs[t].readFree
            /\ retries[t] < RTE_RTM_MAX_RETRIES
            /\ ~inTx[t]

(* the only attempt of a call was rolled back while the fallback lock  *)
(* was held; the call waited, saw the flag zero and returned 0         *)
C20_Witness ==
    /\ Returned(Caller, 0)
    /\ obs[Caller].begins = 1
    /\ obs[Caller].spins > 0
    /\ obs[Caller].sawHeld
    /\ obs[Caller].readFree
    /\ lock # 0
====
